---- MODULE Spec2Model ----
(***************************************************************************)
(* bqplot.figure.Figure: a DOMWidget whose state is thirteen traits        *)
(* declared with IPython.utils.traitlets (figure.py:92-113) and two        *)
(* dynamic default factories (figure.py:115-119).                          *)
(*                                                                         *)
(* The class body holds declarations only; what an assignment does is      *)
(* fixed by the trait type each declaration names.  The validators and the *)
(* assignment protocol below follow IPython.utils.traitlets as shipped     *)
(* with IPython 3.x, the release line that provides both modules imported  *)
(* at figure.py:29-31 (IPython.html.widgets.register and                   *)
(* IPython.utils.traitlets).  In that release Instance, the containers,    *)
(* Dict and Enum take allow_none=True unless told otherwise, which is why  *)
(* the declarations of axes, marks and legend_location pass                *)
(* allow_none=False.                                                       *)
(*                                                                         *)
(* Python values are records [tag, num, str, seq, map]:                    *)
(*   none   None                                                           *)
(*   str    a unicode string, in str                                       *)
(*   int    an int, in num                                                 *)
(*   float  a float, num holding the value in thousandths (0.025 is 25)    *)
(*   bool   num is 1 for True and 0 for False                              *)
(*   list   a list of object references, in seq                            *)
(*   dict   a dict from string keys to scalars, in map                     *)
(*   obj    a reference to an object of the heap, num is its identity      *)
(***************************************************************************)
EXTENDS Integers, Sequences, FiniteSets, TLC

VARIABLES
    widgets,          \* identities of the Figure instances constructed so far
    trait_values,     \* HasTraits._trait_values of each constructed Figure
    trait_notifiers,  \* HasTraits._trait_notifiers of each constructed Figure
    heap,             \* the other objects alive: identity -> [cls, attrs]
    registered,       \* history: on_trait_change registrations, in call order
    events,           \* history: _notify_trait invocations made by set calls
    received,         \* history: handler invocations, in invocation order
    ncalls,           \* number of trait assignments made so far
    last              \* the most recent create or set call and its outcome

vars == <<widgets, trait_values, trait_notifiers, heap, registered, events,
          received, ncalls, last>>

(***************************************************************************)
(* Bounds of the exploration.                                              *)
(***************************************************************************)
MaxOverrides == 1
MaxSets == 2
MaxObservers == 2

\* Two instances are what a statement about "any two Figure instances" needs.
FigIds == {"fig1", "fig2"}

\* The instance whose mutation is explored.
Subject == "fig1"

(***************************************************************************)
(* Python values.                                                          *)
(***************************************************************************)
EmptyMap == [k \in {} |-> [tag |-> "none", num |-> 0, str |-> ""]]

Sc(t, n, s) == [tag |-> t, num |-> n, str |-> s]

V(t, n, s, q, m) == [tag |-> t, num |-> n, str |-> s, seq |-> q, map |-> m]

NoneV == V("none", 0, "", <<>>, EmptyMap)

StrV(s) == V("str", 0, s, <<>>, EmptyMap)

IntV(n) == V("int", n, "", <<>>, EmptyMap)

FloatV(m) == V("float", m, "", <<>>, EmptyMap)

BoolV(b) == V("bool", IF b THEN 1 ELSE 0, "", <<>>, EmptyMap)

ListV(q) == V("list", 0, "", q, EmptyMap)

DictV(m) == V("dict", 0, "", <<>>, m)

ObjV(id) == V("obj", id, "", <<>>, EmptyMap)

\* int, float and bool compare and convert as numbers (bool subclasses int).
IsNumber(v) == v.tag \in {"int", "float", "bool"}

\* The numeric value of a number, in thousandths: what float(v) denotes.
Milli(v) == IF v.tag = "float" THEN v.num ELSE v.num * 1000

\* Python's == on scalars.
ScEq(a, b) ==
    IF IsNumber(a) /\ IsNumber(b) THEN Milli(a) = Milli(b)
    ELSE /\ a.tag = b.tag
         /\ a.tag = "str" => a.str = b.str

\* Python's == on values: numbers by value, strings, lists and dicts by
\* content, objects by identity (Widget defines no __eq__).
PyEq(a, b) ==
    IF IsNumber(a) /\ IsNumber(b) THEN Milli(a) = Milli(b)
    ELSE /\ a.tag = b.tag
         /\ a.tag = "str" => a.str = b.str
         /\ a.tag = "list" => a.seq = b.seq
         /\ a.tag = "obj" => a.num = b.num
         /\ a.tag = "dict" =>
               /\ DOMAIN a.map = DOMAIN b.map
               /\ \A k \in DOMAIN a.map : ScEq(a.map[k], b.map[k])

\* The strings float() parses, among the strings the model offers.
FloatLiterals == [s \in {"5"} |-> 5000]


(***************************************************************************)
(* The heap: objects the Figure refers to.  Three objects exist before any *)
(* Figure does and are what a caller can pass in: a LinearScale made by    *)
(* the caller, an Interaction and an Axis.                                 *)
(***************************************************************************)
EmptyAttrs == [k \in {} |-> 0]

Mro ==
    [LinearScale |-> {"LinearScale", "Scale"},
     Interaction |-> {"Interaction"},
     Axis        |-> {"Axis"}]

InitHeap ==
    (1 :> [cls |-> "LinearScale", attrs |-> [min |-> 0, max |-> 1]]) @@
    (2 :> [cls |-> "Interaction", attrs |-> EmptyAttrs]) @@
    (3 :> [cls |-> "Axis", attrs |-> EmptyAttrs])

IsInstance(v, klass, h) ==
    /\ v.tag = "obj"
    /\ v.num \in DOMAIN h
    /\ klass \in Mro[h[v.num].cls]

\* The identity a newly constructed object gets.
RECURSIVE MaxOf(_)
MaxOf(S) ==
    IF S = {} THEN 0
    ELSE LET x == CHOOSE y \in S : TRUE
             m == MaxOf(S \ {x})
         IN IF x > m THEN x ELSE m

NewId(h) == MaxOf(DOMAIN h) + 1

\* LinearScale(min=lo, max=hi): a new object on the heap.
LinearScale(h, lo, hi) ==
    [id   |-> NewId(h),
     heap |-> h @@ (NewId(h) :> [cls |-> "LinearScale",
                                 attrs |-> [min |-> lo, max |-> hi]])]

(***************************************************************************)
(* The trait declarations of class Figure.                                 *)
(***************************************************************************)
TraitNames ==
    {"title", "axes", "marks", "interaction", "scale_x", "scale_y",
     "min_width", "min_height", "preserve_aspect", "fig_margin",
     "padding_x", "padding_y", "legend_location"}

MarginKeys == {"top", "bottom", "left", "right"}

LegendLocations ==
    {"top-right", "top", "top-left", "left",
     "bottom-left", "bottom", "bottom-right", "right"}

\* type: the trait class; klass: the class an Instance trait names;
\* allow_none: the allow_none keyword as written ("unset" when absent).
Declared ==
    [title           |-> [type |-> "Unicode",  klass |-> "", allow_none |-> "unset"],
     axes            |-> [type |-> "List",     klass |-> "", allow_none |-> "False"],
     marks           |-> [type |-> "List",     klass |-> "", allow_none |-> "False"],
     interaction     |-> [type |-> "Instance", klass |-> "Interaction", allow_none |-> "True"],
     scale_x         |-> [type |-> "Instance", klass |-> "Scale", allow_none |-> "unset"],
     scale_y         |-> [type |-> "Instance", klass |-> "Scale", allow_none |-> "unset"],
     min_width       |-> [type |-> "CFloat",   klass |-> "", allow_none |-> "unset"],
     min_height      |-> [type |-> "CFloat",   klass |-> "", allow_none |-> "unset"],
     preserve_aspect |-> [type |-> "Bool",     klass |-> "", allow_none |-> "unset"],
     fig_margin      |-> [type |-> "Dict",     klass |-> "", allow_none |-> "unset"],
     padding_x       |-> [type |-> "Float",    klass |-> "", allow_none |-> "unset"],
     padding_y       |-> [type |-> "Float",    klass |-> "", allow_none |-> "unset"],
     legend_location |-> [type |-> "Enum",     klass |-> "", allow_none |-> "False"]]

\* allow_none when the declaration does not pass it: the class-based and
\* container traits and Enum default to True, the scalar traits to False.
DefaultAllowNone(type) == type \in {"Instance", "List", "Dict", "Enum"}

\* allow_none taken from the trait class alone, the keyword ignored.
AllowNoneKeywordIgnored(name) == DefaultAllowNone(Declared[name].type)

AllowNone(name) ==
    IF Declared[name].allow_none = "unset"
    THEN DefaultAllowNone(Declared[name].type)
    ELSE Declared[name].allow_none = "True"

\* The traits whose default is made by a _<name>_default method.
DynamicDefaults == {"scale_x", "scale_y"}

\* Every trait left at the default of its trait class.
DefaultValueOfClass(name) ==
    CASE Declared[name].type = "Unicode" -> StrV("")
      [] Declared[name].type = "List" -> ListV(<<>>)
      [] Declared[name].type = "Instance" -> NoneV
      [] Declared[name].type \in {"CFloat", "Float"} -> FloatV(0)
      [] Declared[name].type = "Bool" -> BoolV(FALSE)
      [] Declared[name].type = "Dict" -> DictV(EmptyMap)
      [] Declared[name].type = "Enum" -> NoneV

\* The static default of each other trait.
DefaultValue(name) ==
    CASE name = "title"           -> StrV("")
      [] name = "axes"            -> ListV(<<>>)
      [] name = "marks"           -> ListV(<<>>)
      [] name = "interaction"     -> NoneV
      [] name = "min_width"       -> FloatV(800000)
      [] name = "min_height"      -> FloatV(600000)
      [] name = "preserve_aspect" -> BoolV(FALSE)
      [] name = "fig_margin"      -> DictV([k \in MarginKeys |-> Sc("int", 60, "")])
      [] name = "padding_x"       -> FloatV(0)
      [] name = "padding_y"       -> FloatV(25)
      [] name = "legend_location" -> StrV("top-right")

(***************************************************************************)
(* Validation: TraitType._validate and the validate method of each type.   *)
(* A result is [ok, value]; ok = FALSE stands for TraitError.              *)
(***************************************************************************)
Ok(v) == [ok |-> TRUE, value |-> v]

TraitError == [ok |-> FALSE, value |-> NoneV]

UnicodeValidate(v) == IF v.tag = "str" THEN Ok(v) ELSE TraitError

BoolValidate(v) == IF v.tag = "bool" THEN Ok(v) ELSE TraitError

\* Float: a float as is, an int converted by float(), anything else an error.
FloatValidate(v) ==
    IF v.tag = "float" THEN Ok(v)
    ELSE IF v.tag \in {"int", "bool"} THEN Ok(FloatV(Milli(v)))
    ELSE TraitError

\* CFloat behaving as a strict float check.
CFloatValidateStrict(v) == IF v.tag = "float" THEN Ok(v) ELSE TraitError

\* CFloat: float(value), an error when float() raises.
CFloatValidate(v) ==
    IF IsNumber(v) THEN Ok(FloatV(Milli(v)))
    ELSE IF v.tag = "str" /\ v.str \in DOMAIN FloatLiterals
         THEN Ok(FloatV(FloatLiterals[v.str]))
    ELSE TraitError

InstanceValidate(klass, v, h) ==
    IF IsInstance(v, klass, h) THEN Ok(v) ELSE TraitError

\* List() without an element trait: any list, of any length.
ListValidate(v) == IF v.tag = "list" THEN Ok(v) ELSE TraitError

\* Dict accepting whatever it is given.
DictValidateAnything(v) == Ok(v)

\* Dict: an instance of dict; keys and values are not looked at.
DictValidate(v) == IF v.tag = "dict" THEN Ok(v) ELSE TraitError

\* Enum checking the type of the value only.
EnumValidateAnyStr(values, v) == IF v.tag = "str" THEN Ok(v) ELSE TraitError

EnumValidate(values, v) ==
    IF v.tag = "str" /\ v.str \in values THEN Ok(v) ELSE TraitError

Validate(name, v, h) ==
    LET d == Declared[name] IN
    IF v.tag = "none" /\ AllowNone(name) THEN Ok(v)
    ELSE CASE d.type = "Unicode"  -> UnicodeValidate(v)
           [] d.type = "List"     -> ListValidate(v)
           [] d.type = "Instance" -> InstanceValidate(d.klass, v, h)
           [] d.type = "CFloat"   -> CFloatValidate(v)
           [] d.type = "Bool"     -> BoolValidate(v)
           [] d.type = "Dict"     -> DictValidate(v)
           [] d.type = "Float"    -> FloatValidate(v)
           [] d.type = "Enum"     -> EnumValidate(LegendLocations, v)


(***************************************************************************)
(* Dynamic defaults (figure.py:115-119): each call constructs a scale.     *)
(***************************************************************************)
_scale_x_default(h) == LinearScale(h, 0, 1)

\* The y default handing back the object made last instead of a new one.
_scale_y_default_shared(h) == [id |-> MaxOf(DOMAIN h), heap |-> h]

_scale_y_default(h) == LinearScale(h, 0, 1)

(***************************************************************************)
(* What the environment passes in.                                         *)
(***************************************************************************)
FullMargin(e) == DictV([k \in MarginKeys |-> e])

Inputs ==
    {NoneV, StrV("Revenue"), StrV("5"), StrV("center"), StrV("top-right"),
     IntV(5), FloatV(5000), BoolV(TRUE),
     ListV(<<>>), ListV(<<3>>),
     FullMargin(Sc("int", 10, "")),
     FullMargin(Sc("float", 60000, "")),
     DictV([k \in MarginKeys \ {"right"} |-> Sc("int", 10, "")]),
     DictV([k \in MarginKeys |->
               IF k = "right" THEN Sc("str", 0, "wide") ELSE Sc("int", 10, "")]),
     ObjV(1), ObjV(2)}

EmptyKw == [n \in {} |-> NoneV]

\* Keyword arguments naming at most MaxOverrides of the traits in names.
KwOver(names) ==
    UNION {[S -> Inputs] :
              S \in {T \in SUBSET names : Cardinality(T) <= MaxOverrides}}

Overrides == KwOver(TraitNames)

Handlers == {"h1", "h2"}

NotifierNames == TraitNames \cup {"anytrait"}

NoCall ==
    [op |-> "none", fig |-> "", name |-> "", value |-> NoneV, old |-> NoneV,
     kw |-> EmptyKw, ok |-> TRUE]

(***************************************************************************)
(* Init: no Figure constructed yet.                                        *)
(***************************************************************************)
Init ==
    /\ widgets = {}
    /\ trait_values = [f \in {} |-> 0]
    /\ trait_notifiers = [f \in {} |-> 0]
    /\ heap = InitHeap
    /\ registered = <<>>
    /\ events = <<>>
    /\ received = <<>>
    /\ ncalls = 0
    /\ last = NoCall

(***************************************************************************)
(* Figure(kw):    HasTraits.__init__ assigns every keyword with setattr,   *)
(* so each goes through its trait's validation and a TraitError leaves no  *)
(* instance.  Widget.__init__ then opens the comm and sends the full state,*)
(* which reads every sync=True trait: a scale that was not passed is made  *)
(* by its _<name>_default method there.  No handler can be registered      *)
(* before the constructor returns, so nothing is delivered.                *)
(***************************************************************************)
Create(f, kw) ==
    /\ f \notin widgets
    /\ LET checked == [n \in DOMAIN kw |-> Validate(n, kw[n], heap)]
           call == [op |-> "create", fig |-> f, name |-> "", value |-> NoneV,
                    old |-> NoneV, kw |-> kw, ok |-> TRUE]
       IN IF \E n \in DOMAIN kw : ~checked[n].ok
          THEN /\ last' = [call EXCEPT !.ok = FALSE]
               /\ UNCHANGED <<widgets, trait_values, trait_notifiers, heap,
                              registered, events, received, ncalls>>
          ELSE LET hx == IF "scale_x" \in DOMAIN kw
                         THEN [id |-> kw["scale_x"].num, heap |-> heap]
                         ELSE _scale_x_default(heap)
                   hy == IF "scale_y" \in DOMAIN kw
                         THEN [id |-> kw["scale_y"].num, heap |-> hx.heap]
                         ELSE _scale_y_default(hx.heap)
                   dyn == [scale_x |-> Validate("scale_x", ObjV(hx.id), hy.heap),
                           scale_y |-> Validate("scale_y", ObjV(hy.id), hy.heap)]
                   vals == [n \in TraitNames |->
                              IF n \in DOMAIN kw THEN checked[n].value
                              ELSE IF n \in DynamicDefaults THEN dyn[n].value
                              ELSE DefaultValue(n)]
               IN /\ widgets' = widgets \cup {f}
                  /\ trait_values' = trait_values @@ (f :> vals)
                  /\ trait_notifiers' =
                        trait_notifiers @@ (f :> [n \in NotifierNames |-> <<>>])
                  /\ heap' = hy.heap
                  /\ ncalls' = ncalls + Cardinality(DOMAIN kw)
                  /\ last' = call
                  /\ UNCHANGED <<registered, events, received>>

(***************************************************************************)
(* on_trait_change(handler, name): append the handler to the list kept     *)
(* for name ("anytrait" when no name is given) unless it is already there. *)
(***************************************************************************)
InSeq(x, q) == \E i \in 1..Len(q) : q[i] = x

on_trait_change(f, handler, name) ==
    /\ f \in widgets
    /\ Len(registered) < MaxObservers
    /\ ~InSeq(handler, trait_notifiers[f][name])
    /\ trait_notifiers' =
          [trait_notifiers EXCEPT ![f][name] = Append(@, handler)]
    /\ registered' =
          Append(registered, [fig |-> f, handler |-> handler, filter |-> name,
                              at |-> ncalls])
    /\ UNCHANGED <<widgets, trait_values, heap, events, received, ncalls, last>>

(***************************************************************************)
(* _notify_trait(name, old, new): the handlers registered for name, then   *)
(* those registered for any trait, each list in registration order.        *)
(***************************************************************************)
\* The handlers for any trait called ahead of those for the name.
CallablesAnyFirst(f, name) ==
    [i \in 1..Len(trait_notifiers[f]["anytrait"]) |->
        [handler |-> trait_notifiers[f]["anytrait"][i], filter |-> "anytrait"]]
    \o
    [i \in 1..Len(trait_notifiers[f][name]) |->
        [handler |-> trait_notifiers[f][name][i], filter |-> name]]

Callables(f, name) ==
    [i \in 1..Len(trait_notifiers[f][name]) |->
        [handler |-> trait_notifiers[f][name][i], filter |-> name]]
    \o
    [i \in 1..Len(trait_notifiers[f]["anytrait"]) |->
        [handler |-> trait_notifiers[f]["anytrait"][i], filter |-> "anytrait"]]

\* TraitType.__set__ skips the notification when old == new.
SilentNever(old, new) == FALSE

Silent(old, new) == PyEq(old, new)

\* TraitType.__set__ stores the validated value; _validate raising leaves
\* _trait_values as it was.
StoredEvenIfInvalid(f, name, r) == [trait_values EXCEPT ![f][name] = r.value]

Stored(f, name, r) ==
    IF r.ok THEN [trait_values EXCEPT ![f][name] = r.value] ELSE trait_values

(***************************************************************************)
(* fig.<name> = value, TraitType.__set__: validate, store, and notify      *)
(* unless the stored value compares equal to the one it replaces.          *)
(***************************************************************************)
Set(f, name, value) ==
    /\ f \in widgets
    /\ ncalls < MaxSets
    /\ LET r == Validate(name, value, heap)
           old == trait_values[f][name]
           call == [op |-> "set", fig |-> f, name |-> name, value |-> value,
                    old |-> old, kw |-> EmptyKw, ok |-> r.ok]
           ev == [fig |-> f, name |-> name, old |-> old, new |-> r.value,
                  call |-> ncalls + 1]
           cbs == Callables(f, name)
       IN /\ ncalls' = ncalls + 1
          /\ last' = call
          /\ trait_values' = Stored(f, name, r)
          /\ IF ~r.ok
             THEN UNCHANGED <<events, received>>
             ELSE /\ IF Silent(old, r.value)
                     THEN UNCHANGED <<events, received>>
                     ELSE /\ events' = Append(events, ev)
                          /\ received' = received \o
                                [i \in 1..Len(cbs) |->
                                    [handler |-> cbs[i].handler,
                                     filter |-> cbs[i].filter,
                                     event |-> ev]]
    /\ UNCHANGED <<widgets, trait_notifiers, heap, registered>>

(***************************************************************************)
(* Specifications.                                                         *)
(***************************************************************************)
\* One Figure: one constructor call with keywords, then assignments.
Next ==
    \/ /\ last.op = "none"
       /\ \E kw \in Overrides :
             /\ Cardinality(DOMAIN kw) <= MaxSets
             /\ Create(Subject, kw)
    \/ \E n \in TraitNames, v \in Inputs : Set(Subject, n, v)

Spec == Init /\ [][Next]_vars

\* Two Figures, each constructed with or without scales passed in.
ScaleOverrides == KwOver({"scale_x", "scale_y"})

NextScales ==
    \E f \in FigIds \ widgets : \E kw \in ScaleOverrides : Create(f, kw)

SpecScales == Init /\ [][NextScales]_vars

\* One Figure with handlers registered for one trait or for any trait.
ObsFilters == {"anytrait", "title"}

ObsTraits == {"title", "min_width", "fig_margin"}

ObsInputs ==
    {NoneV, StrV(""), StrV("Revenue"), IntV(5),
     FullMargin(Sc("float", 60000, ""))}

NextObs ==
    \/ Create(Subject, EmptyKw)
    \/ \E h \in Handlers, n \in ObsFilters : on_trait_change(Subject, h, n)
    \/ \E n \in ObsTraits, v \in ObsInputs : Set(Subject, n, v)

SpecObs == Init /\ [][NextObs]_vars

(***************************************************************************)
(* The data model as documented: the type each field is documented to      *)
(* hold and the default it is documented to have.                          *)
(***************************************************************************)
EightLocations ==
    {"top-right", "top", "top-left", "left",
     "bottom-left", "bottom", "bottom-right", "right"}

IsLocation(v) == v.tag = "str" /\ v.str \in EightLocations

IsFullMargin(v) ==
    /\ v.tag = "dict"
    /\ DOMAIN v.map = {"top", "bottom", "left", "right"}
    /\ \A k \in DOMAIN v.map : IsNumber(v.map[k])

HasDeclaredType(n, v, h) ==
    CASE n = "title" -> v.tag = "str"
      [] n \in {"axes", "marks"} -> v.tag = "list"
      [] n = "interaction" -> v.tag = "none" \/ IsInstance(v, "Interaction", h)
      [] n \in {"scale_x", "scale_y"} -> IsInstance(v, "Scale", h)
      [] n \in {"min_width", "min_height", "padding_x", "padding_y"} ->
            v.tag = "float"
      [] n = "preserve_aspect" -> v.tag = "bool"
      [] n = "fig_margin" -> IsFullMargin(v)
      [] n = "legend_location" -> IsLocation(v)

DocumentedDefault(n) ==
    CASE n = "title" -> StrV("")
      [] n \in {"axes", "marks"} -> ListV(<<>>)
      [] n = "interaction" -> NoneV
      [] n = "min_width" -> FloatV(800000)
      [] n = "min_height" -> FloatV(600000)
      [] n = "preserve_aspect" -> BoolV(FALSE)
      [] n = "fig_margin" ->
            DictV([k \in {"top", "bottom", "left", "right"} |-> Sc("int", 60, "")])
      [] n = "padding_x" -> FloatV(0)
      [] n = "padding_y" -> FloatV(25)
      [] n = "legend_location" -> StrV("top-right")

\* The last call was set(n, ...) on a constructed Figure.
LastSet(n) == last.op = "set" /\ last.name = n

\* The value the field named by the last set call holds now.
LastField == trait_values[last.fig][last.name]

(***************************************************************************)
(* C1: in every reachable state legend_location is one of the eight        *)
(* documented values, and a create or a set that supplies any other value  *)
(* (None and "center" included) fails.                                     *)
(***************************************************************************)
C1_LegendLocationEnumerated ==
    /\ \A f \in widgets : IsLocation(trait_values[f]["legend_location"])
    /\ (LastSet("legend_location") /\ ~IsLocation(last.value)) => ~last.ok
    /\ ( /\ last.op = "create"
         /\ "legend_location" \in DOMAIN last.kw
         /\ ~IsLocation(last.kw["legend_location"]) ) => ~last.ok

C1_Witness ==
    /\ LastSet("legend_location")
    /\ last.value = StrV("center")
    /\ ~last.ok
    /\ trait_values[last.fig]["legend_location"] = StrV("top-right")

(***************************************************************************)
(* C2 as stated: set("fig_margin", m) with a mapping m that lacks one of    *)
(* the four keys or maps a key to a non-number fails and leaves fig_margin *)
(* as it was, so a fig_margin that is a mapping always has exactly the     *)
(* four keys.                                                              *)
(***************************************************************************)
C2_MarginKeysEnforced ==
    /\ ( /\ LastSet("fig_margin")
         /\ last.value.tag = "dict"
         /\ ~IsFullMargin(last.value) ) => (~last.ok /\ LastField = last.old)
    /\ \A f \in widgets :
          trait_values[f]["fig_margin"].tag = "dict" =>
             IsFullMargin(trait_values[f]["fig_margin"])

(***************************************************************************)
(* C2 amended: set("fig_margin", m) fails whenever m is neither a mapping  *)
(* nor None, and the failed call leaves fig_margin as it was; a mapping is *)
(* stored whatever its keys and values; so in every reachable state        *)
(* fig_margin is a mapping or None.                                        *)
(***************************************************************************)
C2_MarginIsMapping ==
    /\ (LastSet("fig_margin") /\ last.value.tag \notin {"dict", "none"}) =>
          (~last.ok /\ LastField = last.old)
    /\ (LastSet("fig_margin") /\ last.value.tag = "dict") =>
          (last.ok /\ LastField = last.value)
    /\ \A f \in widgets : trait_values[f]["fig_margin"].tag \in {"dict", "none"}

C2_Witness ==
    /\ LastSet("fig_margin")
    /\ last.value = IntV(5)
    /\ ~last.ok
    /\ ~IsFullMargin(last.old)

C4_AxesMarksNeverNull ==
    /\ \A f \in widgets :
          /\ trait_values[f]["axes"].tag = "list"
          /\ trait_values[f]["marks"].tag = "list"
    /\ ( /\ last.op = "set"
         /\ last.name \in {"axes", "marks"}
         /\ last.value.tag = "none" ) => (~last.ok /\ LastField = last.old)
    /\ ( /\ last.op = "set"
         /\ last.name \in {"axes", "marks"}
         /\ last.value = ListV(<<>>) ) => (last.ok /\ LastField = ListV(<<>>))

C4_Witness ==
    /\ LastSet("axes")
    /\ last.value = ListV(<<>>)
    /\ last.old = ListV(<<3>>)
    /\ last.ok
    /\ trait_values[last.fig]["axes"] = ListV(<<>>)

\* Scales made by a default factory: they are not among the caller's objects.
MadeByDefault(v) == v.tag = "obj" /\ v.num \notin DOMAIN InitHeap

IsUnitLinearScale(v) ==
    /\ v.tag = "obj"
    /\ v.num \in DOMAIN heap
    /\ heap[v.num].cls = "LinearScale"
    /\ heap[v.num].attrs = [min |-> 0, max |-> 1]

(***************************************************************************)
(* C5: a Figure constructed without scale_x and scale_y gets two different *)
(* LinearScale instances, each with min 0 and max 1, and no two Figures    *)
(* share a scale made by default.                                          *)
(***************************************************************************)
C5_DefaultScalesDistinct ==
    /\ ( /\ last.op = "create"
         /\ last.ok
         /\ DOMAIN last.kw \cap {"scale_x", "scale_y"} = {} ) =>
          LET t == trait_values[last.fig] IN
          /\ MadeByDefault(t["scale_x"]) /\ IsUnitLinearScale(t["scale_x"])
          /\ MadeByDefault(t["scale_y"]) /\ IsUnitLinearScale(t["scale_y"])
          /\ t["scale_x"].num # t["scale_y"].num
    /\ \A f \in widgets : \A g \in widgets \ {f} :
          \A n \in {"scale_x", "scale_y"} : \A m \in {"scale_x", "scale_y"} :
             MadeByDefault(trait_values[f][n]) =>
                trait_values[f][n].num # trait_values[g][m].num

C5_Witness ==
    /\ widgets = FigIds
    /\ \A f \in FigIds : \A n \in {"scale_x", "scale_y"} :
          MadeByDefault(trait_values[f][n]) /\ IsUnitLinearScale(trait_values[f][n])
    /\ Cardinality({trait_values[f][n].num :
                       f \in FigIds, n \in {"scale_x", "scale_y"}}) = 4

(***************************************************************************)
(* C6: for overrides that each have the documented type of their field,    *)
(* create(overrides) yields an instance where each overridden field equals *)
(* the supplied value and each omitted field equals its documented default.*)
(***************************************************************************)
C6_CreateMergesDefaults ==
    ( /\ last.op = "create"
      /\ \A n \in DOMAIN last.kw : HasDeclaredType(n, last.kw[n], heap) ) =>
       /\ last.ok
       /\ \A n \in DOMAIN last.kw : trait_values[last.fig][n] = last.kw[n]
       /\ \A n \in TraitNames \ (DOMAIN last.kw \cup {"scale_x", "scale_y"}) :
             trait_values[last.fig][n] = DocumentedDefault(n)

C6_Witness ==
    /\ last.op = "create"
    /\ last.ok
    /\ last.kw = [n \in {"title"} |-> StrV("Revenue")]
    /\ trait_values[last.fig]["title"] = StrV("Revenue")
    /\ trait_values[last.fig]["padding_y"] = FloatV(25)

(***************************************************************************)
(* Observers and events.                                                   *)
(***************************************************************************)
\* The events emitted by the assignment numbered c.
EventsOf(c) == {i \in 1..Len(events) : events[i].call = c}

\* The deliveries of event e to the observer (handler h, filter k).
Deliveries(h, k, e) ==
    {i \in 1..Len(received) :
        /\ received[i].handler = h
        /\ received[i].filter = k
        /\ received[i].event = e}

Observers == {registered[i] : i \in 1..Len(registered)}

\* The observers already registered when the assignment numbered c was made.
ObserversAt(c) == {o \in Observers : o.at < c}

\* Position of an observer in the order of registration.
RegPos(h, k) ==
    CHOOSE i \in 1..Len(registered) :
        registered[i].handler = h /\ registered[i].filter = k

(***************************************************************************)
(* C7 as stated: every successful set, one whose value equals the current  *)
(* value included, emits exactly one change event carrying (name, old,     *)
(* new), and every registered observer has received it when set returns.   *)
(***************************************************************************)
C7_EverySetNotifies ==
    (last.op = "set" /\ last.ok) =>
       /\ Cardinality(EventsOf(ncalls)) = 1
       /\ \A i \in EventsOf(ncalls) :
             /\ events[i].name = last.name
             /\ events[i].old = last.old
             /\ events[i].new = LastField
             /\ \A o \in ObserversAt(ncalls) :
                   Cardinality(Deliveries(o.handler, o.filter, events[i])) = 1

(***************************************************************************)
(* C7 amended: a successful set whose stored value differs (Python ==)     *)
(* from the value it replaces emits exactly one change event carrying      *)
(* (name, old, stored new value), and every observer registered for that   *)
(* field or for all fields has received it exactly once when set returns;  *)
(* a successful set whose stored value equals the value it replaces emits  *)
(* no event and nothing is delivered.                                      *)
(***************************************************************************)
C7_ChangingSetNotifies ==
    (last.op = "set" /\ last.ok) =>
       IF PyEq(last.old, LastField)
       THEN /\ EventsOf(ncalls) = {}
            /\ \A i \in 1..Len(received) : received[i].event.call # ncalls
       ELSE /\ Cardinality(EventsOf(ncalls)) = 1
            /\ \A i \in EventsOf(ncalls) :
                  /\ events[i].name = last.name
                  /\ events[i].old = last.old
                  /\ events[i].new = LastField
                  /\ \A o \in ObserversAt(ncalls) :
                        Cardinality(Deliveries(o.handler, o.filter, events[i])) =
                           IF o.filter \in {last.name, "anytrait"} THEN 1 ELSE 0

C7_Witness ==
    /\ LastSet("title")
    /\ last.ok
    /\ last.old = StrV("")
    /\ last.value = StrV("Revenue")
    /\ Len(registered) = 2
    /\ Len(received) = 2
    /\ \A i \in 1..2 : received[i].event =
          [fig |-> last.fig, name |-> "title", old |-> StrV(""),
           new |-> StrV("Revenue"), call |-> ncalls]

(***************************************************************************)
(* C8 as stated, its delivery order: the k-th set's event reaches the       *)
(* observers before the next set's event reaches any, and reaches them in  *)
(* the order the observers were registered.                                *)
(***************************************************************************)
C8_RegistrationOrder ==
    \A i \in 1..Len(received) : \A j \in 1..Len(received) :
       i < j =>
          /\ received[i].event.call <= received[j].event.call
          /\ received[i].event.call = received[j].event.call =>
                RegPos(received[i].handler, received[i].filter) <
                RegPos(received[j].handler, received[j].filter)

(***************************************************************************)
(* C8 amended: events are delivered without batching or coalescing: the    *)
(* event of a value-changing set reaches the observers registered for that *)
(* field, in registration order, and then the observers registered for all *)
(* fields, in registration order, before the next set's event reaches any  *)
(* observer; each observer sees exactly one event per value-changing set   *)
(* of a field it observes made after it registered, in call order.         *)
(***************************************************************************)
C8_NameThenAnyOrder ==
    /\ \A i \in 1..Len(received) : \A j \in 1..Len(received) :
          i < j =>
             /\ received[i].event.call <= received[j].event.call
             /\ received[i].event.call = received[j].event.call =>
                   \/ /\ received[i].filter # "anytrait"
                      /\ received[j].filter = "anytrait"
                   \/ /\ received[i].filter = received[j].filter
                      /\ RegPos(received[i].handler, received[i].filter) <
                         RegPos(received[j].handler, received[j].filter)
    /\ \A i \in 1..Len(received) :
          \E k \in 1..Len(events) : events[k] = received[i].event
    /\ \A k \in 1..Len(events) : \A o \in Observers :
          Cardinality(Deliveries(o.handler, o.filter, events[k])) =
             IF /\ o.filter \in {events[k].name, "anytrait"}
                /\ o \in ObserversAt(events[k].call)
             THEN 1 ELSE 0

C8_Witness ==
    /\ Len(events) = 2
    /\ Len(received) = 4
    /\ received[1].filter = "title" /\ received[2].filter = "anytrait"
    /\ RegPos(received[2].handler, "anytrait") < RegPos(received[1].handler, "title")
    /\ received[1].event = events[1] /\ received[2].event = events[1]
    /\ received[3].event = events[2] /\ received[4].event = events[2]

(***************************************************************************)
(* C9 as stated, in its particular case: set("min_width", v) and           *)
(* set("min_height", v) with a v that is not a float fail and store        *)
(* nothing.                                                                *)
(***************************************************************************)
C9_NoCoercion ==
    ( /\ last.op = "set"
      /\ last.name \in {"min_width", "min_height"}
      /\ last.value.tag # "float" ) => (~last.ok /\ LastField = last.old)

(***************************************************************************)
(* C9 amended: set("min_width", v) and set("min_height", v) convert v with *)
(* float(): any number and any numeric string is stored as the converted   *)
(* float, and only a v that float() cannot convert fails; padding_x and    *)
(* padding_y store a float as it is and an int as the converted float and  *)
(* fail for anything else; preserve_aspect and legend_location reject a    *)
(* value that lacks the declared type and store an accepted value          *)
(* unchanged.  A set that fails stores nothing.                            *)
(***************************************************************************)
C9_CoercionByFloat ==
    /\ ( /\ last.op = "set"
         /\ last.name \in {"min_width", "min_height"} ) =>
          IF IsNumber(last.value)
          THEN last.ok /\ LastField = FloatV(Milli(last.value))
          ELSE IF last.value.tag = "str" /\ last.value.str \in DOMAIN FloatLiterals
          THEN last.ok /\ LastField = FloatV(FloatLiterals[last.value.str])
          ELSE ~last.ok
    /\ ( /\ last.op = "set"
         /\ last.name \in {"padding_x", "padding_y"} ) =>
          IF IsNumber(last.value)
          THEN last.ok /\ LastField = FloatV(Milli(last.value))
          ELSE ~last.ok
    /\ ( /\ last.op = "set"
         /\ last.name \in {"preserve_aspect", "legend_location"} ) =>
          IF HasDeclaredType(last.name, last.value, heap)
          THEN last.ok /\ LastField = last.value
          ELSE ~last.ok
    /\ (last.op = "set" /\ ~last.ok) => LastField = last.old

C9_Witness ==
    /\ LastSet("min_width")
    /\ last.value = StrV("5")
    /\ last.ok
    /\ last.old = FloatV(800000)
    /\ trait_values[last.fig]["min_width"] = FloatV(5000)

(***************************************************************************)
(* C10: a set call leaves every field other than the named one unchanged,  *)
(* and a set that fails leaves the named field unchanged too and emits no  *)
(* change event.                                                           *)
(***************************************************************************)
C10_SetFrame ==
    [][ (last'.op = "set" /\ ncalls' = ncalls + 1) =>
           /\ \A f \in widgets : \A n \in TraitNames :
                 (f # last'.fig \/ n # last'.name) =>
                    trait_values'[f][n] = trait_values[f][n]
           /\ ~last'.ok =>
                 /\ trait_values' = trait_values
                 /\ events' = events
                 /\ received' = received ]_vars

C10_Witness ==
    /\ last.op = "set"
    /\ ~last.ok
    /\ Len(events) = 1
    /\ ncalls = 2

====
